---- MODULE Spec2Model ----
(***************************************************************************)
(* Publishing Context Resolver of kjanat/prettier-config.                  *)
(*                                                                         *)
(* Three variants of the resolver exist in the repository:                 *)
(*   "index.ts"  .github/actions/setup-context/index.ts (action script)    *)
(*   "part_003"  standalone setupContext built on @actions/core/exec       *)
(*   "part_004"  standalone setupContext built on bun's $ shell            *)
(* A behaviour of the model is one run of one variant.  Strings are        *)
(* sequences of one-character strings so that startsWith, replace, trim    *)
(* and the semver regular expression are computed character by character.  *)
(***************************************************************************)
EXTENDS Integers, Sequences, FiniteSets, TLC

VARIABLES
    variant,        \* which of the three scripts runs
    githubActions,  \* process.env.GITHUB_ACTIONS is set
    argv,           \* process.argv.slice(2)
    probes,         \* what getGitRef would read: GITHUB_REF and the two git probes
    run,            \* number of the current call of setupContext in this process
    prev,           \* ref, registry outcome, Decision and report of the previous call
    buffer,         \* core.summary's buffer (module state of @actions/core)
    pc,             \* position of the run
    inputs,         \* SetupContextInputs: package, registryUrl, tagPrefix, ref
    ref,            \* const ref
    isTag,          \* const isTag
    tagVersion,     \* const tagVersion
    outputs,        \* SetupContextOutputs object (setupContext variants)
    emitted,        \* core.setOutput calls: per output name the values set, in order
    events,         \* the observable steps of the run, in order
    lookup,         \* what the registry lookup did: kind, exitCode, stdout
    registryCalls,  \* number of registry lookups started
    triggerInfo,    \* keys of the report's key/value list, in order
    versionWarning, \* let versionWarning (TRUE when set)
    summary,        \* the report as emitted: the sequence of its blocks
    notice          \* the final core.notice, "" when none

vars == <<variant, githubActions, argv, probes, run, prev, buffer, pc, inputs, ref, isTag, tagVersion, outputs, emitted, events,
          lookup, registryCalls, triggerInfo, versionWarning, summary, notice>>

-----------------------------------------------------------------------------
(* Bounds of the input space                                               *)

MaxTail == 2
MaxOut == 2
MaxRuns == 2
MaxVer == 6
MaxPairs == 3

-----------------------------------------------------------------------------
(* Strings                                                                 *)

RECURSIVE SeqsUpTo(_, _)
SeqsUpTo(S, n) ==
    IF n = 0 THEN {<<>>}
    ELSE LET shorter == SeqsUpTo(S, n - 1)
         IN  shorter \cup {Append(s, c) : s \in shorter, c \in S}

RefsTagsLiteral == <<"r","e","f","s","/","t","a","g","s","/">>
RefsHeadsLiteral == <<"r","e","f","s","/","h","e","a","d","s","/">>
DefaultRef == RefsHeadsLiteral \o <<"m","a","i","n">>
DefaultTagPrefix == <<"v">>

WhiteSpace == {" ", "\n", "\t", "\r"}

\* String.prototype.trim
RECURSIVE TrimStart(_)
TrimStart(s) ==
    IF s # <<>> /\ Head(s) \in WhiteSpace THEN TrimStart(Tail(s)) ELSE s

RECURSIVE TrimEnd(_)
TrimEnd(s) ==
    IF s # <<>> /\ s[Len(s)] \in WhiteSpace
    THEN TrimEnd(SubSeq(s, 1, Len(s) - 1)) ELSE s

Trim(s) == TrimEnd(TrimStart(s))

\* pattern occurs in s at (1-based) position i
OccursAt(s, pattern, i) ==
    /\ i >= 1
    /\ i + Len(pattern) - 1 <= Len(s)
    /\ SubSeq(s, i, i + Len(pattern) - 1) = pattern

\* defect: the pattern is searched anywhere in s (includes instead of startsWith)
StartsWithAnywhere(s, pattern) ==
    \E i \in 1..(Len(s) + 1) : OccursAt(s, pattern, i)

\* String.prototype.startsWith
StartsWith(s, pattern) == OccursAt(s, pattern, 1)

\* String.prototype.replace(pattern, '') with a string pattern:
\* the first occurrence is removed, the string is unchanged when there is none
ReplaceWithEmpty(s, pattern) ==
    LET hits == {i \in 1..(Len(s) + 1) : OccursAt(s, pattern, i)}
    IN  IF hits = {} THEN s
        ELSE LET first == CHOOSE i \in hits : \A j \in hits : i <= j
             IN  SubSeq(s, 1, first - 1) \o SubSeq(s, first + Len(pattern), Len(s))

-----------------------------------------------------------------------------
(* Version-format validation                                               *)

Digit == {"0","1","2","3","4","5","6","7","8","9"}
Letter == {"a","b","c","d","e","f","g","h","i","j","k","l","m",
           "n","o","p","q","r","s","t","u","v","w","x","y","z",
           "A","B","C","D","E","F","G","H","I","J","K","L","M",
           "N","O","P","Q","R","S","T","U","V","W","X","Y","Z"}
IdentChar == Digit \cup Letter \cup {"-"}

\* \d+
MatchDigits(s) == Len(s) > 0 /\ \A i \in 1..Len(s) : s[i] \in Digit

\* [0-9A-Za-z-]+
MatchIdent(s) == Len(s) > 0 /\ \A i \in 1..Len(s) : s[i] \in IdentChar

\* \d+\.\d+\.\d+
MatchCore(s) ==
    \E a, b \in 1..Len(s) :
        /\ a < b
        /\ s[a] = "."
        /\ s[b] = "."
        /\ MatchDigits(SubSeq(s, 1, a - 1))
        /\ MatchDigits(SubSeq(s, a + 1, b - 1))
        /\ MatchDigits(SubSeq(s, b + 1, Len(s)))

\* defect: [0-9A-Za-z.-]+, identifiers may be empty
MatchPrereleaseLoose(s) ==
    /\ Len(s) > 0
    /\ \A i \in 1..Len(s) : s[i] \in IdentChar \cup {"."}

\* [0-9A-Za-z-]+(\.[0-9A-Za-z-]+)*
MatchPrerelease(s) ==
    /\ Len(s) > 0
    /\ \A i \in 1..Len(s) : s[i] \in IdentChar \cup {"."}
    /\ s[1] # "."
    /\ s[Len(s)] # "."
    /\ \A i \in 1..(Len(s) - 1) : ~(s[i] = "." /\ s[i + 1] = ".")

\* (\+[0-9A-Za-z-]+)?$
MatchBuildOpt(s) ==
    \/ s = <<>>
    \/ /\ s[1] = "+"
       /\ MatchIdent(Tail(s))

\* (-[0-9A-Za-z-]+(\.[0-9A-Za-z-]+)*)?(\+[0-9A-Za-z-]+)?$
MatchPreBuildOpt(s) ==
    \/ MatchBuildOpt(s)
    \/ /\ s # <<>>
       /\ s[1] = "-"
       /\ \E e \in 2..Len(s) :
              /\ MatchPrerelease(SubSeq(s, 2, e))
              /\ MatchBuildOpt(SubSeq(s, e + 1, Len(s)))

\* semverRegex.test(tagVersion)
SemverTest(s) ==
    \E c \in 1..Len(s) :
        /\ MatchCore(SubSeq(s, 1, c))
        /\ MatchPreBuildOpt(SubSeq(s, c + 1, Len(s)))

-----------------------------------------------------------------------------
(* Input space                                                             *)

Variants == {"index.ts", "part_003", "part_004"}

\* the value of a variable that was never set (JavaScript undefined)
Undefined == <<"(undefined)">>

TailChars == {"v", "1", "2"}
OutChars == {"1", "2", "\n"}

ScenarioRefs ==
    { DefaultRef,
      RefsTagsLiteral \o <<"v","1",".","2",".","3">>,
      RefsTagsLiteral \o <<"v","1",".","2",".","4">>,
      RefsTagsLiteral \o <<"v","1",".","0",".","0">>,
      RefsTagsLiteral \o <<"v","f","o","o">>,
      RefsTagsLiteral \o <<"v">> \o RefsTagsLiteral \o <<"v">>,
      <<"r","e","f","s","/","t","a","g","s">> }

RefHeads == {RefsTagsLiteral, RefsHeadsLiteral, <<"x">> \o RefsTagsLiteral}

\* non-empty ref strings
Refs == {h \o t : h \in RefHeads, t \in SeqsUpTo(TailChars, MaxTail)} \cup ScenarioRefs

TagPrefixes == {DefaultTagPrefix, <<>>, <<"v", "1">>}

ScenarioOutputs ==
    { <<"1",".","2",".","3">>,
      <<"1",".","2",".","3","\n">>,
      <<"f","o","o">> }

Stdouts == SeqsUpTo(OutChars, MaxOut) \cup ScenarioOutputs

ExitCodes == {0, 1}

\* what the registry lookup can do: return (exitCode, stdout) or throw
LookupOutcomes ==
    [kind : {"returned"}, exitCode : ExitCodes, stdout : Stdouts]
        \cup {[kind |-> "threw", exitCode |-> 1, stdout |-> <<>>]}

NoLookup == [kind |-> "none", exitCode |-> 0, stdout |-> <<>>]

\* process.env.GITHUB_REF: unset, empty, or a ref
EnvRefs == {Undefined, <<>>, RefsTagsLiteral \o <<"v", "1">>, RefsHeadsLiteral \o <<"2">>}

\* JavaScript truthiness of a string-or-undefined value
Truthy(s) == s # Undefined /\ s # <<>>

\* result of a git probe: exit code and stdout
BranchProbes ==
    [exitCode : ExitCodes, stdout : {<<>>, <<"\n">>, RefsHeadsLiteral \o <<"1", "\n">>}]
TagProbes ==
    [exitCode : ExitCodes, stdout : {<<>>, <<"\n">>, <<"v", "2", "\n">>}]

\* git is not installed: bun's shell reports a non-zero exit code,
\* exec.getExecOutput rejects
GitMissing == [exitCode |-> 127, stdout |-> <<>>]

OutputNames == {"is-tag", "tag-version", "is-published", "published-version",
                "already-published", "should-publish"}

\* no report has been emitted
NoSummary == <<>>

\* the value of `outputs` before the object is created
NoOutputs ==
    [isTag |-> FALSE, tagVersion |-> <<>>, isPublished |-> FALSE,
     publishedVersion |-> <<>>, alreadyPublished |-> FALSE, shouldPublish |-> FALSE]

-----------------------------------------------------------------------------
(* getGitRef                                                               *)

\* defect: the exact tag is probed before the current branch
GetGitRefBunTagFirst(envRef, branch, tag) ==
    IF Truthy(envRef)
    THEN [value |-> envRef, calls |-> <<"env:GITHUB_REF">>]
    ELSE IF tag.exitCode = 0 /\ Truthy(Trim(tag.stdout))
    THEN [value |-> RefsTagsLiteral \o Trim(tag.stdout),
          calls |-> <<"env:GITHUB_REF", "git:describe">>]
    ELSE IF branch.exitCode = 0 /\ Truthy(Trim(branch.stdout))
    THEN [value |-> Trim(branch.stdout),
          calls |-> <<"env:GITHUB_REF", "git:describe", "git:symbolic-ref">>]
    ELSE [value |-> DefaultRef,
          calls |-> <<"env:GITHUB_REF", "git:describe", "git:symbolic-ref">>]

\* part_004: GITHUB_REF, then git symbolic-ref, then git describe, then default
GetGitRefBun(envRef, branch, tag) ==
    IF Truthy(envRef)
    THEN [value |-> envRef, calls |-> <<"env:GITHUB_REF">>]
    ELSE IF branch.exitCode = 0 /\ Truthy(Trim(branch.stdout))
    THEN [value |-> Trim(branch.stdout),
          calls |-> <<"env:GITHUB_REF", "git:symbolic-ref">>]
    ELSE IF tag.exitCode = 0 /\ Truthy(Trim(tag.stdout))
    THEN [value |-> RefsTagsLiteral \o Trim(tag.stdout),
          calls |-> <<"env:GITHUB_REF", "git:symbolic-ref", "git:describe">>]
    ELSE [value |-> DefaultRef,
          calls |-> <<"env:GITHUB_REF", "git:symbolic-ref", "git:describe">>]

\* the promise of getGitRef was rejected
Thrown == <<"(thrown)">>

\* part_003: in CI context.ref (the value of GITHUB_REF, possibly undefined)
\* is returned as it is; otherwise the same chain as part_004, except that
\* exec.getExecOutput rejects when the git executable cannot be located
GetGitRefActions(inActions, envRef, branch, tag) ==
    IF inActions
    THEN [value |-> envRef, calls |-> <<"env:GITHUB_ACTIONS">>]
    ELSE IF ~Truthy(envRef) /\ branch = GitMissing
    THEN [value |-> Thrown,
          calls |-> <<"env:GITHUB_ACTIONS", "env:GITHUB_REF", "git:symbolic-ref">>]
    ELSE LET r == GetGitRefBun(envRef, branch, tag)
         IN  [value |-> r.value, calls |-> <<"env:GITHUB_ACTIONS">> \o r.calls]

-----------------------------------------------------------------------------
(* checkRegistryVersion                                                    *)

\* part_004 returns the raw stdout of `bun info`
CheckRegistryVersionBun(outcome) ==
    [exitCode |-> outcome.exitCode, stdout |-> outcome.stdout]

\* defect: the exit code of the lookup is lost
CheckRegistryVersionActionsZeroExit(outcome) ==
    [exitCode |-> 0, stdout |-> Trim(outcome.stdout)]

\* part_003 returns result.stdout.trim()
CheckRegistryVersionActions(outcome) ==
    [exitCode |-> outcome.exitCode, stdout |-> Trim(outcome.stdout)]

CheckRegistryVersion(v, outcome) ==
    IF v = "part_003" THEN CheckRegistryVersionActions(outcome)
    ELSE CheckRegistryVersionBun(outcome)

\* defect: the exit code is not looked at
FoundIgnoringExitCode(result) == Truthy(Trim(result.stdout))

\* defect: whitespace-only output counts as an answer
FoundWithoutTrim(result) == result.exitCode = 0 /\ Truthy(result.stdout)

\* if (exitCode === 0 && stdout.trim())
Found(result) == result.exitCode = 0 /\ Truthy(Trim(result.stdout))

-----------------------------------------------------------------------------
(* Classification                                                          *)

\* const tagPattern = `refs/tags/${inputs.tagPrefix}`
TagPattern(tagPrefix) == RefsTagsLiteral \o tagPrefix

\* const isTag = ref.startsWith(tagPattern)
IsTagOf(r, tagPrefix) == StartsWith(r, TagPattern(tagPrefix))

\* defect: only the literal refs/tags/ is stripped, the tag prefix is kept
TagVersionOfKeepingPrefix(r, tagPrefix) ==
    IF IsTagOf(r, tagPrefix) THEN ReplaceWithEmpty(r, RefsTagsLiteral) ELSE <<>>

\* const tagVersion = isTag ? ref.replace(tagPattern, '') : ''
TagVersionOf(r, tagPrefix) ==
    IF IsTagOf(r, tagPrefix) THEN ReplaceWithEmpty(r, TagPattern(tagPrefix)) ELSE <<>>

-----------------------------------------------------------------------------
(* The SetupContextOutputs object                                          *)

\* defect: shouldPublish starts as true
InitialOutputsPublishing(t, v) ==
    [isTag |-> t, tagVersion |-> v, isPublished |-> FALSE,
     publishedVersion |-> <<>>, alreadyPublished |-> FALSE, shouldPublish |-> TRUE]

\* "Initialize outputs"
InitialOutputs(t, v) ==
    [isTag |-> t, tagVersion |-> v, isPublished |-> FALSE,
     publishedVersion |-> <<>>, alreadyPublished |-> FALSE, shouldPublish |-> FALSE]

\* defect: the tag version is compared with the untrimmed output
FoundOutputsUntrimmed(o, tv, stdout) ==
    LET already == (tv = stdout)
    IN  [o EXCEPT !.publishedVersion = Trim(stdout),
                  !.isPublished = TRUE,
                  !.alreadyPublished = already,
                  !.shouldPublish = ~already]

\* defect: shouldPublish is not assigned in the found branch
FoundOutputsKeepingShouldPublish(o, tv, stdout) ==
    LET published == Trim(stdout)
    IN  [o EXCEPT !.publishedVersion = published,
                  !.isPublished = TRUE,
                  !.alreadyPublished = (tv = published)]

\* defect: isPublished is not assigned in the found branch
FoundOutputsKeepingIsPublished(o, tv, stdout) ==
    LET published == Trim(stdout)
        already == (tv = published)
    IN  [o EXCEPT !.publishedVersion = published,
                  !.alreadyPublished = already,
                  !.shouldPublish = ~already]

\* defect: a tag version seen by an earlier call counts as already published
FoundOutputsRemembering(o, tv, stdout) ==
    LET published == Trim(stdout)
        already == (tv = published) \/ (run > 1 /\ prev.outputs.tagVersion = tv)
    IN  [o EXCEPT !.publishedVersion = published,
                  !.isPublished = TRUE,
                  !.alreadyPublished = already,
                  !.shouldPublish = ~already]

\* the branch taken when a published version was found
FoundOutputs(o, tv, stdout) ==
    LET published == Trim(stdout)
        already == (tv = published)
    IN  [o EXCEPT !.publishedVersion = published,
                  !.isPublished = TRUE,
                  !.alreadyPublished = already,
                  !.shouldPublish = ~already]

\* defect: the not-found branch marks the package as published
NotFoundOutputsMarkedPublished(o) == [o EXCEPT !.shouldPublish = TRUE, !.isPublished = TRUE]

\* the branch taken when the package was not found in the registry
NotFoundOutputs(o) == [o EXCEPT !.shouldPublish = TRUE]

\* defect: the catch block allows the publish
FaultOutputsFailOpen(o) == [o EXCEPT !.shouldPublish = TRUE]

\* the catch block logs a warning and assigns nothing
FaultOutputs(o) == o

-----------------------------------------------------------------------------
(* Report                                                                  *)

\* the value shown for "Latest Published" when nothing is published
EmDash == <<"(em dash)">>

\* defect: isPublished is tested before alreadyPublished
StatusOfPublishedFirst(o) ==
    IF ~o.isTag THEN "Not a version tag"
    ELSE IF o.isPublished THEN "Ready to Publish"
    ELSE IF o.alreadyPublished THEN "Already Published"
    ELSE "First Publish"

\* the status chain of buildSummary / buildSummaryMarkdown
StatusOf(o) ==
    IF ~o.isTag THEN "Not a version tag"
    ELSE IF o.alreadyPublished THEN "Already Published"
    ELSE IF o.isPublished THEN "Ready to Publish"
    ELSE "First Publish"

BuildSummary(o, rows, warning) ==
    [status |-> StatusOf(o), warning |-> warning, rows |-> rows,
     nextSteps |-> o.shouldPublish]

\* the final core.notice of setupContext
NoticeOf(o) ==
    IF o.shouldPublish /\ o.isTag THEN "is ready to be published"
    ELSE IF o.alreadyPublished THEN "is already published - skipping"
    ELSE ""

Emit(e, name, value) == [e EXCEPT ![name] = Append(@, value)]

-----------------------------------------------------------------------------
(* parseArgs                                                               *)

DashDash == <<"-", "-">>
KeyPackage == <<"p","a","c","k","a","g","e">>
KeyRegistry == <<"r","e","g","i","s","t","r","y">>
KeyRegistryUrl == KeyRegistry \o <<"-","u","r","l">>
KeyTagPrefix == <<"t","a","g","-","p","r","e","f","i","x">>
KeyRef == <<"r","e","f">>

\* const inputs = {tagPrefix: 'v', ref: ''}
InitialInputs ==
    [package |-> Undefined, registryUrl |-> Undefined,
     tagPrefix |-> DefaultTagPrefix, ref |-> <<>>]

\* defect: a flag that was already given is not overwritten
SetInputFirstWins(acc, key, value) ==
    IF key = KeyPackage /\ acc.package = Undefined THEN [acc EXCEPT !.package = value]
    ELSE IF (key = KeyRegistry \/ key = KeyRegistryUrl) /\ acc.registryUrl = Undefined
    THEN [acc EXCEPT !.registryUrl = value]
    ELSE IF key = KeyTagPrefix /\ acc.tagPrefix = DefaultTagPrefix
    THEN [acc EXCEPT !.tagPrefix = value]
    ELSE IF key = KeyRef /\ acc.ref = <<>> THEN [acc EXCEPT !.ref = value]
    ELSE acc

\* the switch on the key of one flag
SetInput(acc, key, value) ==
    IF key = KeyPackage THEN [acc EXCEPT !.package = value]
    ELSE IF key = KeyRegistry \/ key = KeyRegistryUrl THEN [acc EXCEPT !.registryUrl = value]
    ELSE IF key = KeyTagPrefix THEN [acc EXCEPT !.tagPrefix = value]
    ELSE IF key = KeyRef THEN [acc EXCEPT !.ref = value]
    ELSE acc

\* the for loop over args: a flag consumes the next argument as its value
RECURSIVE ParseFrom(_, _, _)
ParseFrom(args, i, acc) ==
    IF i > Len(args) THEN acc
    ELSE IF StartsWith(args[i], DashDash)
    THEN LET key == SubSeq(args[i], 3, Len(args[i]))
             value == IF i + 1 <= Len(args) THEN args[i + 1] ELSE Undefined
         IN  ParseFrom(args, i + 2, SetInput(acc, key, value))
    ELSE ParseFrom(args, i + 1, acc)

\* the inputs object at the end of the loop
ParseArgs(args) == ParseFrom(args, 1, InitialInputs)

\* defect: the usage exit only when both required inputs are missing
MissingRequiredBoth(i) == ~Truthy(i.package) /\ ~Truthy(i.registryUrl)

\* if (!inputs.package || !inputs.registryUrl)
MissingRequired(i) == ~Truthy(i.package) \/ ~Truthy(i.registryUrl)

\* defect: only an absent ref, not an empty one, is looked up
NeedsGitRefWhenUndefined(r) == r = Undefined

\* if (!inputs.ref)
NeedsGitRef(r) == ~Truthy(r)

-----------------------------------------------------------------------------
(* Initial state: the process has been started                             *)

PackageName == <<"@my/pkg">>
RegistryUrl == <<"https://registry">>

PackageArgs ==
    {<<>>, <<DashDash \o KeyPackage, PackageName>>, <<DashDash \o KeyPackage, <<>> >>}
RegistryArgs ==
    {<<>>, <<DashDash \o KeyRegistry, RegistryUrl>>,
     <<DashDash \o KeyRegistryUrl, RegistryUrl>>}
TagPrefixArgs == {<<>>} \cup {<<DashDash \o KeyTagPrefix, p>> : p \in TagPrefixes}
RefArgs == {<<>>} \cup {<<DashDash \o KeyRef, r>> : r \in Refs \cup {<<>>}}

\* the command lines of a run
Argvs ==
    {p \o g \o t \o r : p \in PackageArgs, g \in RegistryArgs,
                        t \in TagPrefixArgs, r \in RefArgs}

\* the environment getGitRef reads
ProbeWorlds ==
    [envRef : EnvRefs, branch : BranchProbes, tag : TagProbes]
        \cup [envRef : EnvRefs, branch : {GitMissing}, tag : {GitMissing}]

\* an environment without GITHUB_REF, outside a git work tree
NoProbes ==
    [envRef |-> Undefined, branch |-> [exitCode |-> 1, stdout |-> <<>>],
     tag |-> [exitCode |-> 1, stdout |-> <<>>]]

\* nothing was called before
NoPrev == [ref |-> <<>>, lookup |-> NoLookup, outputs |-> NoOutputs, summary |-> NoSummary]

\* the state of one call of setupContext (or of the action script) at its start
StartOfRun ==
    /\ ref = <<>>
    /\ isTag = FALSE
    /\ tagVersion = <<>>
    /\ outputs = NoOutputs
    /\ emitted = [n \in OutputNames |-> <<>>]
    /\ events = <<>>
    /\ lookup = NoLookup
    /\ registryCalls = 0
    /\ triggerInfo = <<>>
    /\ versionWarning = FALSE
    /\ summary = NoSummary
    /\ notice = ""

\* the environment is enumerated for the command lines that leave the ref to getGitRef
Init ==
    /\ variant \in Variants
    /\ githubActions \in (IF variant = "part_003" THEN BOOLEAN ELSE {variant = "index.ts"})
    /\ argv \in (IF variant = "index.ts" THEN {<<>>} ELSE Argvs)
    /\ probes \in (IF variant # "index.ts" /\ NeedsGitRef(ParseArgs(argv).ref)
                   THEN ProbeWorlds ELSE {NoProbes})
    /\ inputs \in (IF variant = "index.ts"
                   THEN [package : {PackageName}, registryUrl : {RegistryUrl},
                         tagPrefix : {DefaultTagPrefix},
                         ref : Refs \cup {<<>>, Undefined}]
                   ELSE {InitialInputs})
    /\ pc = IF variant = "index.ts" THEN "script" ELSE "parse"
    /\ run = 1
    /\ prev = NoPrev
    /\ buffer = <<>>
    /\ StartOfRun

-----------------------------------------------------------------------------
(* setupContext (part_003 and part_004)                                    *)

\* defect: the rejection is swallowed, nothing is logged and the exit code is 0
TopLevelCatchSilent(ev) == ev

\* setupContext().catch: console.error('Fatal error:', error), process.exit(1)
TopLevelCatch(ev) == ev \o <<"stderr:fatal", "exit:1">>

\* const inputs = parseArgs(): usage and process.exit(1) when a required
\* input is missing
ParseArguments ==
    /\ pc = "parse"
    /\ variant \in {"part_003", "part_004"}
    /\ inputs' = ParseArgs(argv)
    /\ IF MissingRequired(inputs')
       THEN /\ events' = events \o <<"stderr:usage", "exit:1">>
            /\ pc' = "exited"
       ELSE /\ events' = events
            /\ pc' = "start"
    /\ UNCHANGED <<variant, githubActions, argv, probes, run, prev, buffer, ref, isTag,
                   tagVersion, outputs, emitted, lookup, registryCalls, triggerInfo,
                   versionWarning, summary, notice>>

\* if (!inputs.ref) inputs.ref = await getGitRef(), then the input validation
ResolveRef ==
    /\ pc = "start"
    /\ variant \in {"part_003", "part_004"}
    /\ IF NeedsGitRef(inputs.ref)
       THEN LET r == IF variant = "part_003"
                     THEN GetGitRefActions(githubActions, probes.envRef,
                                           probes.branch, probes.tag)
                     ELSE GetGitRefBun(probes.envRef, probes.branch, probes.tag)
            IN  IF r.value = Thrown
                THEN /\ inputs' = inputs
                     /\ events' = TopLevelCatch(events \o <<"getGitRef">> \o r.calls)
                     /\ pc' = "failed"
                ELSE /\ inputs' = [inputs EXCEPT !.ref = r.value]
                     /\ events' = events \o <<"getGitRef">> \o r.calls
                     /\ pc' = "classify"
       ELSE /\ UNCHANGED <<inputs, events>>
            /\ pc' = "classify"
    /\ UNCHANGED <<argv, probes, run, prev, buffer>>
    /\ UNCHANGED <<variant, githubActions, ref, isTag, tagVersion, outputs, emitted,
                   lookup, registryCalls, triggerInfo, versionWarning, summary, notice>>

\* defect: a tag whose version is not semver skips the registry check
AfterClassifyGated(t, warn) == IF t /\ ~warn THEN "registry" ELSE "finish"

\* if (isTag) { ... registry check ... }: the version warning does not matter
AfterClassify(t, warn) == IF t THEN "registry" ELSE "finish"

\* from "Initialize context" to the core.info that precedes the registry lookup
Classify ==
    /\ pc = "classify"
    /\ variant \in {"part_003", "part_004"}
    /\ IF inputs.ref = Undefined
       THEN \* ref.startsWith throws; the top-level catch logs it and exits with 1
            /\ pc' = "failed"
            /\ events' = TopLevelCatch(events)
            /\ UNCHANGED <<ref, isTag, tagVersion, outputs, emitted, triggerInfo,
                           versionWarning>>
       ELSE LET t == IsTagOf(inputs.ref, inputs.tagPrefix)
                v == TagVersionOf(inputs.ref, inputs.tagPrefix)
                warn == t /\ ~SemverTest(v)
            IN  /\ ref' = inputs.ref
                /\ isTag' = t
                /\ tagVersion' = v
                /\ outputs' = InitialOutputs(t, v)
                /\ emitted' = Emit(Emit(emitted, "is-tag", t), "tag-version", v)
                /\ triggerInfo' =
                       << <<"Trigger", IF t THEN <<"Version Tag">> ELSE <<"Branch/PR">> >>,
                          <<"Reference", inputs.ref>> >>
                       \o (IF t THEN << <<"Tag Version", v>> >> ELSE <<>>)
                /\ versionWarning' = warn
                /\ events' = events \o <<"out:is-tag", "out:tag-version">>
                                    \o (IF warn THEN <<"warn:semver">> ELSE <<>>)
                /\ pc' = AfterClassify(t, warn)
    /\ UNCHANGED <<argv, probes, run, prev, buffer>>
    /\ UNCHANGED <<variant, githubActions, inputs, lookup, registryCalls, summary, notice>>

\* the try/catch around checkRegistryVersion
CheckRegistry ==
    /\ pc = "registry"
    /\ variant \in {"part_003", "part_004"}
    /\ \E outcome \in LookupOutcomes :
           /\ lookup' = outcome
           /\ registryCalls' = registryCalls + 1
           /\ IF outcome.kind = "threw"
              THEN /\ outputs' = FaultOutputs(outputs)
                   /\ events' = events \o <<"registry", "warn:registry">>
                   /\ UNCHANGED triggerInfo
              ELSE LET result == CheckRegistryVersion(variant, outcome)
                   IN  IF Found(result)
                       THEN /\ outputs' = FoundOutputs(outputs, tagVersion, result.stdout)
                            /\ triggerInfo' = triggerInfo \o
                                   << <<"Registry", inputs.registryUrl>>,
                                      <<"Package", inputs.package>>,
                                      <<"Latest Published", outputs'.publishedVersion>> >>
                            /\ events' = events \o <<"registry", "info:found">>
                       ELSE /\ outputs' = NotFoundOutputs(outputs)
                            /\ triggerInfo' = triggerInfo \o
                                   << <<"Registry", inputs.registryUrl>>,
                                      <<"Package", inputs.package>>,
                                      <<"Latest Published", EmDash>> >>
                            /\ events' = events \o <<"registry", "info:not-found">>
    /\ pc' = "finish"
    /\ UNCHANGED <<argv, probes, run, prev, buffer>>
    /\ UNCHANGED <<variant, githubActions, inputs, ref, isTag, tagVersion, emitted,
                   versionWarning, summary, notice>>

\* defect: should-publish is set from alreadyPublished
FinalOutputsMixedUp(o) ==
    << <<"is-published", o.isPublished>>,
       <<"published-version", o.publishedVersion>>,
       <<"already-published", o.alreadyPublished>>,
       <<"should-publish", o.alreadyPublished>> >>

\* "Set final outputs": the four core.setOutput calls
FinalOutputs(o) ==
    << <<"is-published", o.isPublished>>,
       <<"published-version", o.publishedVersion>>,
       <<"already-published", o.alreadyPublished>>,
       <<"should-publish", o.shouldPublish>> >>

\* the four core.setOutput calls as steps of the run
FinalOutputEvents ==
    <<"out:is-published", "out:published-version",
      "out:already-published", "out:should-publish">>

\* defect: the report is emitted before the final outputs are set
FinishEventsReportFirst(last) == <<"summary">> \o FinalOutputEvents \o last

\* final outputs, then the report, then the notice (if any)
FinishEvents(last) == FinalOutputEvents \o <<"summary">> \o last

RECURSIVE EmitAll(_, _)
EmitAll(e, pairs) ==
    IF pairs = <<>> THEN e
    ELSE EmitAll(Emit(e, Head(pairs)[1], Head(pairs)[2]), Tail(pairs))

\* "Set final outputs", the summary, the debug group and the final notice.
\* part_004 prints the markdown of this call.  part_003 appends to the buffer
\* of core.summary; in CI it awaits core.summary.write(), which empties the
\* buffer after writing and rejects when the step summary file cannot be
\* written (the rejection reaches the top-level catch); locally it prints
\* core.summary.stringify() and leaves the buffer as it is.
Finish ==
    /\ pc = "finish"
    /\ variant \in {"part_003", "part_004"}
    /\ emitted' = EmitAll(emitted, FinalOutputs(outputs))
    /\ LET block == BuildSummary(outputs, triggerInfo, versionWarning)
           last == IF NoticeOf(outputs) # "" THEN <<"notice">> ELSE <<>>
       IN  IF variant = "part_004"
           THEN /\ summary' = <<block>>
                /\ buffer' = buffer
                /\ notice' = NoticeOf(outputs)
                /\ events' = events \o FinishEvents(last)
                /\ pc' = "done"
           ELSE \E written \in (IF githubActions THEN BOOLEAN ELSE {TRUE}) :
                    IF written
                    THEN /\ summary' = Append(buffer, block)
                         /\ buffer' = IF githubActions THEN <<>> ELSE Append(buffer, block)
                         /\ notice' = NoticeOf(outputs)
                         /\ events' = events \o FinishEvents(last)
                         /\ pc' = "done"
                    ELSE /\ buffer' = Append(buffer, block)
                         /\ events' = TopLevelCatch(events \o FinalOutputEvents)
                         /\ pc' = "failed"
                         /\ UNCHANGED <<summary, notice>>
    /\ UNCHANGED <<argv, probes, run, prev>>
    /\ UNCHANGED <<variant, githubActions, inputs, ref, isTag, tagVersion, outputs,
                   lookup, registryCalls, triggerInfo, versionWarning>>

\* setupContext is exported: the process calls it once more
Restart ==
    /\ pc = "done"
    /\ variant \in {"part_003", "part_004"}
    /\ run < MaxRuns
    /\ run' = run + 1
    /\ prev' = [ref |-> ref, lookup |-> lookup, outputs |-> outputs, summary |-> summary]
    /\ inputs' = InitialInputs
    /\ pc' = "parse"
    /\ ref' = <<>>
    /\ isTag' = FALSE
    /\ tagVersion' = <<>>
    /\ outputs' = NoOutputs
    /\ emitted' = [n \in OutputNames |-> <<>>]
    /\ events' = <<>>
    /\ lookup' = NoLookup
    /\ registryCalls' = 0
    /\ triggerInfo' = <<>>
    /\ versionWarning' = FALSE
    /\ summary' = NoSummary
    /\ notice' = ""
    /\ UNCHANGED <<variant, githubActions, argv, probes, buffer>>

-----------------------------------------------------------------------------
(* index.ts, the action script                                             *)

\* lines 5-19, and for a non-tag ref the else branch of lines 55-60
IndexClassify ==
    /\ pc = "script"
    /\ variant = "index.ts"
    /\ IF inputs.ref = Undefined
       THEN \* context.ref is undefined: ref.startsWith throws and the script dies
            /\ pc' = "failed"
            /\ events' = Append(events, "fatal")
            /\ UNCHANGED <<ref, isTag, tagVersion, emitted, triggerInfo, buffer>>
       ELSE LET t == IsTagOf(inputs.ref, DefaultTagPrefix)
                v == TagVersionOf(inputs.ref, DefaultTagPrefix)
            IN  /\ ref' = inputs.ref
                /\ isTag' = t
                /\ tagVersion' = v
                /\ IF t
                   THEN /\ emitted' = Emit(Emit(emitted, "is-tag", t), "tag-version", v)
                        /\ triggerInfo' = << <<"Ref", inputs.ref>>,
                                             <<"Is Tag", <<"true">> >>,
                                             <<"Tag Version", v>> >>
                        /\ events' = events \o <<"out:is-tag", "out:tag-version">>
                        /\ pc' = "registry"
                        /\ UNCHANGED buffer
                   ELSE /\ emitted' = Emit(Emit(Emit(emitted, "is-tag", t),
                                           "is-published", FALSE),
                                           "already-published", FALSE)
                        /\ triggerInfo' = << <<"Ref", inputs.ref>>,
                                             <<"Is Tag", <<"false">> >> >>
                        /\ buffer' = <<[status |-> "Not a version tag", warning |-> FALSE,
                                         rows |-> triggerInfo', nextSteps |-> FALSE]>>
                        /\ events' = events \o <<"out:is-tag", "out:is-published",
                                                 "out:already-published">>
                        /\ pc' = "write"
    /\ UNCHANGED <<argv, probes, run, prev, summary>>
    /\ UNCHANGED <<variant, githubActions, inputs, outputs, lookup, registryCalls,
                   versionWarning, notice>>

\* lines 21-54: exec.getExecOutput is awaited outside any try block
IndexRegistry ==
    /\ pc = "registry"
    /\ variant = "index.ts"
    /\ \E outcome \in LookupOutcomes :
           /\ lookup' = outcome
           /\ registryCalls' = registryCalls + 1
           /\ IF outcome.kind = "threw"
              THEN /\ pc' = "failed"
                   /\ events' = events \o <<"registry", "fatal">>
                   /\ UNCHANGED <<emitted, triggerInfo, buffer>>
              ELSE LET published == Trim(outcome.stdout)
                       already == (tagVersion = published)
                   IN  /\ pc' = "write"
                       /\ IF outcome.exitCode = 0 /\ Truthy(published)
                          THEN /\ emitted' = Emit(Emit(Emit(emitted,
                                                 "is-published", TRUE),
                                                 "published-version", published),
                                                 "already-published", already)
                               /\ triggerInfo' = Append(triggerInfo,
                                                    <<"Published Version", published>>)
                               /\ buffer' = <<[status |-> IF already
                                                           THEN "Already published"
                                                           ELSE "Ready to publish",
                                                warning |-> FALSE,
                                                rows |-> triggerInfo',
                                                nextSteps |-> FALSE]>>
                               /\ events' = events \o <<"registry", "out:is-published",
                                               "out:published-version",
                                               "out:already-published">>
                          ELSE /\ emitted' = Emit(Emit(emitted,
                                                 "is-published", FALSE),
                                                 "already-published", FALSE)
                               /\ triggerInfo' = Append(triggerInfo,
                                                    <<"Published Version", <<"none">> >>)
                               /\ buffer' = <<[status |-> "First publish",
                                                warning |-> FALSE,
                                                rows |-> triggerInfo',
                                                nextSteps |-> FALSE]>>
                               /\ events' = events \o <<"registry", "out:is-published",
                                               "out:already-published">>
    /\ UNCHANGED <<argv, probes, run, prev, summary>>
    /\ UNCHANGED <<variant, githubActions, inputs, ref, isTag, tagVersion, outputs,
                   versionWarning, notice>>

\* line 63: await core.summary.write(), which rejects when the step summary
\* file cannot be written
IndexWrite ==
    /\ pc = "write"
    /\ variant = "index.ts"
    /\ \E written \in BOOLEAN :
           IF written
           THEN /\ summary' = buffer
                /\ buffer' = <<>>
                /\ events' = Append(events, "summary")
                /\ pc' = "done"
           ELSE /\ events' = Append(events, "fatal")
                /\ pc' = "failed"
                /\ UNCHANGED <<summary, buffer>>
    /\ UNCHANGED <<argv, probes, run, prev>>
    /\ UNCHANGED <<variant, githubActions, inputs, ref, isTag, tagVersion, outputs,
                   emitted, lookup, registryCalls, triggerInfo, versionWarning, notice>>

-----------------------------------------------------------------------------

Next ==
    \/ ParseArguments
    \/ ResolveRef
    \/ Classify
    \/ CheckRegistry
    \/ Finish
    \/ IndexClassify
    \/ IndexRegistry
    \/ IndexWrite

Spec == Init /\ [][Next]_vars

-----------------------------------------------------------------------------
(* A process that calls setupContext repeatedly with the same command line *)
(* and environment; the registry may answer differently each time          *)

RepeatArgvs ==
    {<<DashDash \o KeyPackage, PackageName, DashDash \o KeyRegistry, RegistryUrl>> \o r :
        r \in {<<>>,
               <<DashDash \o KeyRef, DefaultRef>>,
               <<DashDash \o KeyRef, RefsTagsLiteral \o <<"v", "1">> >>,
               <<DashDash \o KeyRef, RefsTagsLiteral \o <<"v","1",".","2",".","3">> >>}}

RepeatWorlds ==
    {w \in ProbeWorlds :
        /\ w.branch = [exitCode |-> 1, stdout |-> <<>>]
        /\ w.tag \in {[exitCode |-> 1, stdout |-> <<>>],
                       [exitCode |-> 0, stdout |-> <<"v", "2", "\n">>]}
        /\ w.envRef \in {Undefined, RefsTagsLiteral \o <<"v", "1">>}}

InitRepeat ==
    /\ variant \in {"part_003", "part_004"}
    /\ githubActions \in (IF variant = "part_003" THEN BOOLEAN ELSE {FALSE})
    /\ argv \in RepeatArgvs
    /\ probes \in (IF NeedsGitRef(ParseArgs(argv).ref) THEN RepeatWorlds ELSE {NoProbes})
    /\ inputs = InitialInputs
    /\ pc = "parse"
    /\ run = 1
    /\ prev = NoPrev
    /\ buffer = <<>>
    /\ StartOfRun

NextRepeat ==
    \/ ParseArguments
    \/ ResolveRef
    \/ Classify
    \/ CheckRegistry
    \/ Finish
    \/ Restart

SpecRepeat == InitRepeat /\ [][NextRepeat]_vars

-----------------------------------------------------------------------------
(* Version validation: runs that are given --ref refs/tags/v<version>      *)

VersionChars == {"1", ".", "-", "+", "a"}

ScenarioVersions ==
    {<<"1",".","2",".","3","-","a",".","a","+","a","-","a">>,
     <<"1",".","2",".","3","-","a","+","a">>,
     <<"1",".","2",".","3","-","a",".",".","a">>,
     <<"1",".","2",".","3","-",".">>,
     <<"1",".","2",".","3","-","a","+","a",".","a">>,
     <<"1",".","2",".","3","+","a","+","a">>,
     <<"1",".","2",".","3","+","a","-","a">>,
     <<"1",".","2",".","3","\n">>,
     <<" ","1",".","2",".","3">>,
     <<"v","1",".","2",".","3">>,
     <<"1","0",".","0","2",".","3","0">>,
     <<"1",".","2",".","3","-","Z","9","-">>,
     <<"1",".","2",".","3","_">>}

\* the strings that follow the tag prefix
Versions == SeqsUpTo(VersionChars, MaxVer) \cup ScenarioVersions

SemverArgvs ==
    {<<DashDash \o KeyPackage, PackageName, DashDash \o KeyRegistry, RegistryUrl,
       DashDash \o KeyRef, RefsTagsLiteral \o DefaultTagPrefix \o v>> : v \in Versions}

InitSemver ==
    /\ variant \in {"part_003", "part_004"}
    /\ githubActions = FALSE
    /\ argv \in SemverArgvs
    /\ probes = NoProbes
    /\ inputs = InitialInputs
    /\ pc = "parse"
    /\ run = 1
    /\ prev = NoPrev
    /\ buffer = <<>>
    /\ StartOfRun

\* the run up to the registry lookup
NextSemver ==
    \/ ParseArguments
    \/ ResolveRef
    \/ Classify

SpecSemver == InitSemver /\ [][NextSemver]_vars

-----------------------------------------------------------------------------
(* parseArgs on command lines of flag/value pairs in any order             *)

ArgFlags == {DashDash \o k : k \in {KeyPackage, KeyRegistry, KeyRegistryUrl,
                                     KeyTagPrefix, KeyRef}}

\* non-empty values; the last one looks like a flag
ArgValues == {<<"a">>, <<"b">>, DashDash \o KeyRef}

ArgPairs == {<<f, v>> : f \in ArgFlags, v \in ArgValues}

RECURSIVE FlattenPairs(_)
FlattenPairs(ps) == IF ps = <<>> THEN <<>> ELSE Head(ps) \o FlattenPairs(Tail(ps))

\* process.argv.slice(2)
ArgLists == {FlattenPairs(ps) : ps \in SeqsUpTo(ArgPairs, MaxPairs)}

InitArgs ==
    /\ variant \in {"part_003", "part_004"}
    /\ githubActions = FALSE
    /\ argv \in ArgLists
    /\ probes = NoProbes
    /\ inputs = InitialInputs
    /\ pc = "parse"
    /\ run = 1
    /\ prev = NoPrev
    /\ buffer = <<>>
    /\ StartOfRun

NextArgs == ParseArguments

SpecArgs == InitArgs /\ [][NextArgs]_vars

-----------------------------------------------------------------------------
(* Properties                                                              *)

Done == pc = "done"
IsSetupContext == variant \in {"part_003", "part_004"}

\* s begins with the characters of p
BeginsWith(s, p) ==
    /\ Len(s) >= Len(p)
    /\ \A i \in 1..Len(p) : s[i] = p[i]

\* the registry lookup returned a found answer whose published version is w
Reported(w) ==
    /\ lookup.kind = "returned"
    /\ lookup.exitCode = 0
    /\ Trim(lookup.stdout) # <<>>
    /\ Trim(lookup.stdout) = w

\* the output was set exactly once, to value
EmittedOnce(name, value) == Len(emitted[name]) = 1 /\ emitted[name][1] = value

\* C1: a completed run on a ref that does not start with refs/tags/<tagPrefix>
\* ends with isTag, isPublished, alreadyPublished and shouldPublish false and
\* tagVersion empty, and the registry lookup was never invoked.
C1_NonTagNeverQueriesRegistry ==
    (Done /\ ~BeginsWith(ref, RefsTagsLiteral \o inputs.tagPrefix)) =>
        /\ registryCalls = 0
        /\ lookup = NoLookup
        /\ ~isTag
        /\ tagVersion = <<>>
        /\ EmittedOnce("is-tag", FALSE)
        /\ EmittedOnce("is-published", FALSE)
        /\ EmittedOnce("already-published", FALSE)
        /\ emitted["published-version"] \in {<<>>, << <<>> >>}
        /\ IsSetupContext =>
               /\ outputs = [isTag |-> FALSE, tagVersion |-> <<>>,
                             isPublished |-> FALSE, publishedVersion |-> <<>>,
                             alreadyPublished |-> FALSE, shouldPublish |-> FALSE]
               /\ EmittedOnce("tag-version", <<>>)
               /\ EmittedOnce("should-publish", FALSE)

C1_Witness ==
    /\ Done
    /\ variant = "part_004"
    /\ ref = <<"x">> \o RefsTagsLiteral \o <<"v", "1">>
    /\ inputs.tagPrefix = DefaultTagPrefix
    /\ registryCalls = 0

\* C2: on a tag ref with version V, when the registry reports published
\* version V, the Decision has alreadyPublished = true and shouldPublish = false.
C2_SameVersionAlreadyPublished ==
    (Done /\ IsSetupContext /\ isTag /\ Reported(tagVersion)) =>
        /\ outputs.alreadyPublished
        /\ ~outputs.shouldPublish
        /\ EmittedOnce("already-published", TRUE)
        /\ EmittedOnce("should-publish", FALSE)

C2_Witness ==
    /\ Done
    /\ IsSetupContext
    /\ tagVersion = <<"f", "o", "o">>
    /\ Reported(<<"f", "o", "o">>)
    /\ outputs.alreadyPublished

\* C3: on a tag ref with version V, when the registry reports a published
\* version W that differs from V as a string, shouldPublish is true.
C3_OtherVersionShouldPublish ==
    (Done /\ IsSetupContext /\ isTag
          /\ \E w \in {Trim(lookup.stdout)} : w # tagVersion /\ Reported(w)) =>
        /\ outputs.shouldPublish
        /\ EmittedOnce("should-publish", TRUE)

C3_Witness ==
    /\ Done
    /\ IsSetupContext
    /\ tagVersion = <<"1", ".", "2", ".", "4">>
    /\ Reported(<<"1", ".", "2", ".", "3">>)
    /\ outputs.shouldPublish

\* C4: on a tag ref, when the registry lookup returns a non-zero exit code or
\* empty output, isPublished is false, publishedVersion is empty,
\* alreadyPublished is false and shouldPublish is true.
C4_NotFoundIsFirstPublish ==
    (Done /\ IsSetupContext /\ isTag /\ lookup.kind = "returned"
          /\ (lookup.exitCode # 0 \/ lookup.stdout = <<>>)) =>
        /\ ~outputs.isPublished
        /\ outputs.publishedVersion = <<>>
        /\ ~outputs.alreadyPublished
        /\ outputs.shouldPublish
        /\ EmittedOnce("is-published", FALSE)
        /\ EmittedOnce("should-publish", TRUE)

C4_Witness ==
    /\ Done
    /\ IsSetupContext
    /\ tagVersion = <<"1", ".", "0", ".", "0">>
    /\ lookup = [kind |-> "returned", exitCode |-> 1, stdout |-> <<>>]
    /\ outputs.shouldPublish

\* C5: on a tag ref, when checkRegistryVersion throws, the failure is caught,
\* a warning is logged, and the Decision is that of a clean "not found":
\* isPublished = false and shouldPublish = true.
C5_FaultFailsOpen ==
    (Done /\ IsSetupContext /\ isTag /\ lookup.kind = "threw") =>
        /\ \E i \in 1..Len(events) : events[i] = "warn:registry"
        /\ ~outputs.isPublished
        /\ outputs.shouldPublish

\* C6: on a tag ref, when checkRegistryVersion throws, shouldPublish stays
\* false, a warning about the failure is emitted, and the run still completes
\* and emits all six outputs.
C6_FaultKeepsShouldPublishFalse ==
    (IsSetupContext /\ lookup.kind = "threw") =>
        /\ isTag
        /\ pc \in {"finish", "done", "failed"}
        /\ variant = "part_004" => pc # "failed"
        /\ ~outputs.shouldPublish
        /\ \E i \in 1..Len(events) : events[i] = "warn:registry"
        /\ pc \in {"done", "failed"} =>
               /\ \A n \in OutputNames : Len(emitted[n]) = 1
               /\ EmittedOnce("should-publish", FALSE)

C6_Witness ==
    /\ Done
    /\ variant = "part_003"
    /\ isTag
    /\ lookup.kind = "threw"
    /\ EmittedOnce("should-publish", FALSE)

\* C7: in the Decision of every completed run, on every path, shouldPublish
\* equals isTag and not alreadyPublished.
C7_ShouldPublishIsTagAndNotAlready ==
    (Done /\ IsSetupContext) =>
        (outputs.shouldPublish <=> (outputs.isTag /\ ~outputs.alreadyPublished))

\* C8: isTag is true exactly when ref starts with refs/tags/ followed by
\* tagPrefix; tagVersion is the rest of ref after that prefix when isTag, and
\* the empty string otherwise.
C8_Classification ==
    (pc \in {"registry", "finish", "write", "done"}) =>
        /\ isTag <=> BeginsWith(ref, RefsTagsLiteral \o inputs.tagPrefix)
        /\ isTag => RefsTagsLiteral \o inputs.tagPrefix \o tagVersion = ref
        /\ ~isTag => tagVersion = <<>>
        /\ IsSetupContext => (outputs.isTag = isTag /\ outputs.tagVersion = tagVersion)

C8_Witness ==
    /\ Done
    /\ isTag
    /\ inputs.tagPrefix = DefaultTagPrefix
    /\ ref = RefsTagsLiteral \o <<"v">> \o RefsTagsLiteral \o <<"v">>
    /\ tagVersion = RefsTagsLiteral \o <<"v">>

\* C9: in every completed run alreadyPublished = true implies
\* isPublished = true, in the Decision and in the outputs set.
C9_AlreadyPublishedImpliesIsPublished ==
    Done =>
        /\ outputs.alreadyPublished => outputs.isPublished
        /\ EmittedOnce("already-published", TRUE) => EmittedOnce("is-published", TRUE)

C9_Witness ==
    /\ Done
    /\ variant = "index.ts"
    /\ EmittedOnce("already-published", TRUE)
    /\ EmittedOnce("is-published", TRUE)

\* C10: in every completed run shouldPublish = true implies isTag = true;
\* should-publish is never set to true for a non-tag ref.
C10_ShouldPublishImpliesIsTag ==
    Done =>
        /\ outputs.shouldPublish => (outputs.isTag /\ isTag)
        /\ \A i \in 1..Len(emitted["should-publish"]) :
               emitted["should-publish"][i] => isTag

C10_Witness ==
    /\ Done
    /\ variant = "part_003"
    /\ isTag
    /\ outputs.shouldPublish
    /\ EmittedOnce("should-publish", TRUE)
    /\ lookup.kind = "returned"

-----------------------------------------------------------------------------
(* Properties of the command line and of ref resolution                    *)

\* args holds one of the flags followed by a non-empty value
HasValue(args, keys) ==
    \E i \in 1..(Len(args) - 1) :
        /\ \E k \in keys : args[i] = DashDash \o k
        /\ args[i + 1] # <<>>

\* the step named e happened in this run
Happened(e) == \E i \in 1..Len(events) : events[i] = e

\* C11: when the command line lacks a non-empty --package value or a
\* non-empty --registry/--registry-url value, the process prints the usage
\* message to standard error and exits with code 1 before any ref detection,
\* registry lookup or output.
C11_MissingRequiredExits ==
    (IsSetupContext /\ pc # "parse"
        /\ (~HasValue(argv, {KeyPackage})
            \/ ~HasValue(argv, {KeyRegistry, KeyRegistryUrl}))) =>
        /\ pc = "exited"
        /\ events = <<"stderr:usage", "exit:1">>
        /\ registryCalls = 0
        /\ lookup = NoLookup
        /\ \A n \in OutputNames : emitted[n] = <<>>
        /\ summary = NoSummary

C11_Witness ==
    /\ pc = "exited"
    /\ HasValue(argv, {KeyRegistryUrl})
    /\ ~HasValue(argv, {KeyPackage})
    /\ \E i \in 1..Len(argv) : argv[i] = DashDash \o KeyPackage
    /\ events = <<"stderr:usage", "exit:1">>

\* a git probe succeeded with a non-empty answer
Answered(probe) == probe.exitCode = 0 /\ Trim(probe.stdout) # <<>>

\* the first non-empty source of the chain GITHUB_REF, branch, tag, default
FirstSource ==
    IF probes.envRef # Undefined /\ probes.envRef # <<>> THEN probes.envRef
    ELSE IF Answered(probes.branch) THEN Trim(probes.branch.stdout)
    ELSE IF Answered(probes.tag) THEN RefsTagsLiteral \o Trim(probes.tag.stdout)
    ELSE DefaultRef

\* C12: when no ref is supplied getGitRef never fails and returns a non-empty
\* ref: the first non-empty source, or refs/heads/main when every source is
\* empty or fails.
C12_GetGitRefTotal ==
    (IsSetupContext /\ Happened("getGitRef")) =>
        /\ inputs.ref # Undefined
        /\ inputs.ref # <<>>
        /\ inputs.ref = FirstSource
        /\ pc # "failed" \/ Happened("out:is-tag")

\* the sources getGitRef consulted after GITHUB_ACTIONS, in order
Consulted ==
    SelectSeq(events, LAMBDA e : e \in {"env:GITHUB_REF", "git:symbolic-ref", "git:describe"})

\* C13: getGitRef consults GITHUB_REF, then git symbolic-ref, then git
\* describe, then the default; once a source yields a non-empty result no
\* later source is executed, so a branch wins over a tag at HEAD and a set
\* GITHUB_REF wins over both git probes.
C13_SourcesInOrder ==
    (IsSetupContext /\ Happened("getGitRef")) =>
        /\ Consulted \in {<<>>, <<"env:GITHUB_REF">>,
                          <<"env:GITHUB_REF", "git:symbolic-ref">>,
                          <<"env:GITHUB_REF", "git:symbolic-ref", "git:describe">>}
        /\ Truthy(probes.envRef) =>
               /\ inputs.ref = probes.envRef
               /\ ~Happened("git:symbolic-ref")
               /\ ~Happened("git:describe")
        /\ Happened("git:symbolic-ref") =>
               /\ ~Truthy(probes.envRef)
               /\ Answered(probes.branch) =>
                      /\ inputs.ref = Trim(probes.branch.stdout)
                      /\ ~Happened("git:describe")
        /\ Happened("git:describe") =>
               /\ Happened("git:symbolic-ref")
               /\ ~Answered(probes.branch)
               /\ inputs.ref = IF Answered(probes.tag)
                               THEN RefsTagsLiteral \o Trim(probes.tag.stdout)
                               ELSE DefaultRef

C13_Witness ==
    /\ Done
    /\ variant = "part_004"
    /\ ~Truthy(probes.envRef)
    /\ Answered(probes.branch)
    /\ Answered(probes.tag)
    /\ Consulted = <<"env:GITHUB_REF", "git:symbolic-ref">>
    /\ ref = Trim(probes.branch.stdout)

\* the value given with --ref, empty when the flag is absent
SuppliedRef ==
    LET at == {i \in 1..(Len(argv) - 1) : argv[i] = DashDash \o KeyRef}
    IN  IF at = {} THEN <<>>
        ELSE argv[(CHOOSE i \in at : \A j \in at : j <= i) + 1]

\* C14: a non-empty ref supplied with --ref is the one classified and
\* reported and getGitRef is never called; getGitRef is called exactly when
\* the supplied ref is absent or empty.
C14_SuppliedRefWins ==
    (IsSetupContext /\ pc \in {"classify", "registry", "finish", "done", "failed"}) =>
        /\ SuppliedRef # <<>> =>
               /\ ~Happened("getGitRef")
               /\ Consulted = <<>>
               /\ inputs.ref = SuppliedRef
               /\ pc \in {"registry", "finish", "done"} =>
                      /\ ref = SuppliedRef
                      /\ triggerInfo[2] = <<"Reference", SuppliedRef>>
        /\ SuppliedRef = <<>> =>
               Cardinality({i \in 1..Len(events) : events[i] = "getGitRef"}) = 1

C14_Witness ==
    /\ Done
    /\ SuppliedRef = RefsTagsLiteral \o <<"v", "1">>
    /\ ref = SuppliedRef
    /\ isTag
    /\ ~Happened("getGitRef")

-----------------------------------------------------------------------------
(* Properties of the outputs and of the report                             *)

\* C15: a completed run of setupContext sets each of the six outputs exactly
\* once, on every path, to the value of the corresponding Decision field.
C15_SixOutputsOnce ==
    (Done /\ IsSetupContext) =>
        /\ EmittedOnce("is-tag", outputs.isTag)
        /\ EmittedOnce("tag-version", outputs.tagVersion)
        /\ EmittedOnce("is-published", outputs.isPublished)
        /\ EmittedOnce("published-version", outputs.publishedVersion)
        /\ EmittedOnce("already-published", outputs.alreadyPublished)
        /\ EmittedOnce("should-publish", outputs.shouldPublish)

C15_Witness ==
    /\ Done
    /\ variant = "part_004"
    /\ tagVersion = <<"1">>
    /\ EmittedOnce("published-version", <<"1">>)
    /\ EmittedOnce("already-published", TRUE)
    /\ EmittedOnce("should-publish", FALSE)

\* which of the four statuses a status line announces
StatusKind(line) ==
    IF line = "Not a version tag" THEN "NotATag"
    ELSE IF line \in {"Already Published", "Already published"} THEN "AlreadyPublished"
    ELSE IF line \in {"Ready to Publish", "Ready to publish"} THEN "ReadyToPublish"
    ELSE IF line \in {"First Publish", "First publish"} THEN "FirstPublish"
    ELSE "none"

\* is-published and already-published as the run decided them
DecidedPublished ==
    IF IsSetupContext THEN outputs.isPublished ELSE EmittedOnce("is-published", TRUE)
DecidedAlready ==
    IF IsSetupContext THEN outputs.alreadyPublished
    ELSE EmittedOnce("already-published", TRUE)

\* C16: the report of a completed run has exactly one status line: Not-a-tag
\* iff isTag is false, Already-published iff alreadyPublished,
\* Ready-to-publish iff isTag, isPublished and not alreadyPublished,
\* First-publish iff isTag and not isPublished.
C16_OneStatus ==
    Done =>
        /\ Len(summary) = 1
        /\ LET k == StatusKind(summary[1].status)
           IN  /\ k \in {"NotATag", "AlreadyPublished", "ReadyToPublish", "FirstPublish"}
               /\ k = "NotATag" <=> ~isTag
               /\ k = "AlreadyPublished" <=> DecidedAlready
               /\ k = "ReadyToPublish" <=> (isTag /\ DecidedPublished /\ ~DecidedAlready)
               /\ k = "FirstPublish" <=> (isTag /\ ~DecidedPublished)

C16_Witness ==
    /\ Done
    /\ variant = "part_003"
    /\ Len(summary) = 1
    /\ summary[1].status = "Already Published"
    /\ outputs.alreadyPublished

\* the Decision that follows from the tag version and the registry outcome alone
DecisionFromLookup ==
    LET published == Trim(lookup.stdout)
        found == lookup.kind = "returned" /\ lookup.exitCode = 0 /\ published # <<>>
    IN  [isTag |-> TRUE,
         tagVersion |-> tagVersion,
         isPublished |-> found,
         publishedVersion |-> IF found THEN published ELSE <<>>,
         alreadyPublished |-> found /\ tagVersion = published,
         shouldPublish |-> IF found THEN tagVersion # published
                           ELSE lookup.kind = "returned"]

\* the string is MAJOR.MINOR.PATCH of digits only
LooksLikeSemverCore(s) ==
    /\ Len(s) >= 5
    /\ \A i \in 1..Len(s) : s[i] \in Digit \cup {"."}
    /\ Cardinality({i \in 1..Len(s) : s[i] = "."}) = 2
    /\ s[1] # "."
    /\ s[Len(s)] # "."
    /\ \A i \in 1..(Len(s) - 1) : ~(s[i] = "." /\ s[i + 1] = ".")

\* C17: version-format validation never gates the decision: on a tag ref the
\* registry is queried once whether or not the version is semver, the
\* Decision depends on the tag version and the registry outcome only, and a
\* mismatch only adds one warning, logged and shown in the report.
C17_ValidationDoesNotGate ==
    (IsSetupContext /\ isTag /\ pc \in {"finish", "done"}) =>
        /\ registryCalls = 1
        /\ outputs = DecisionFromLookup
        /\ Cardinality({i \in 1..Len(events) : events[i] = "warn:semver"})
               = IF versionWarning THEN 1 ELSE 0
        /\ LooksLikeSemverCore(tagVersion) => ~versionWarning
        /\ (\A i \in 1..Len(tagVersion) : tagVersion[i] # ".") => versionWarning
        /\ Done => summary[Len(summary)].warning = versionWarning

C17_Witness ==
    /\ Done
    /\ variant = "part_004"
    /\ versionWarning
    /\ tagVersion = <<"1">>
    /\ Reported(<<"2">>)
    /\ outputs.shouldPublish
    /\ registryCalls = 1

\* the index of the first c in s, 0 when there is none
FirstIndex(s, c) ==
    IF \E i \in 1..Len(s) : s[i] = c
    THEN CHOOSE i \in 1..Len(s) : s[i] = c /\ \A j \in 1..(i - 1) : s[j] # c
    ELSE 0

\* the parts of s between the occurrences of sep
RECURSIVE SplitOn(_, _)
SplitOn(s, sep) ==
    LET i == FirstIndex(s, sep)
    IN  IF i = 0 THEN <<s>>
        ELSE <<SubSeq(s, 1, i - 1)>> \o SplitOn(SubSeq(s, i + 1, Len(s)), sep)

\* a non-empty string of characters of the class
NonEmptyOf(s, class) == s # <<>> /\ \A i \in 1..Len(s) : s[i] \in class

\* MAJOR.MINOR.PATCH[-PRERELEASE][+BUILD]
MatchesGrammar(s) ==
    LET plus == FirstIndex(s, "+")
        main == IF plus = 0 THEN s ELSE SubSeq(s, 1, plus - 1)
        dash == FirstIndex(main, "-")
        core == SplitOn(IF dash = 0 THEN main ELSE SubSeq(main, 1, dash - 1), ".")
        pre  == SplitOn(SubSeq(main, dash + 1, Len(main)), ".")
    IN  /\ Len(core) = 3
        /\ \A i \in 1..3 : NonEmptyOf(core[i], Digit)
        /\ dash # 0 => \A i \in 1..Len(pre) : NonEmptyOf(pre[i], Digit \cup Letter \cup {"-"})
        /\ plus # 0 => NonEmptyOf(SubSeq(s, plus + 1, Len(s)), Digit \cup Letter \cup {"-"})

\* C18: for every tag version string the version-format warning is emitted
\* exactly when the whole string does not match
\* MAJOR.MINOR.PATCH[-PRERELEASE][+BUILD].
C18_WarningIffNotSemver ==
    (IsSetupContext /\ isTag /\ pc = "registry") =>
        /\ versionWarning <=> ~MatchesGrammar(tagVersion)
        /\ Happened("warn:semver") <=> versionWarning

C18_Witness ==
    /\ pc = "registry"
    /\ tagVersion = <<"1",".","2",".","3","-","a",".","a","+","a","-","a">>
    /\ ~versionWarning
    /\ ~Happened("warn:semver")

-----------------------------------------------------------------------------
(* Properties of repeated calls                                            *)

\* C19: two calls of setupContext with identical inputs (arguments, ref) and
\* an identical registry response yield identical Decisions: all six fields
\* of the second equal those of the first.
C19_SameInputsSameDecision ==
    (IsSetupContext /\ run >= 2 /\ Done /\ ref = prev.ref /\ lookup = prev.lookup) =>
        /\ outputs.isTag = prev.outputs.isTag
        /\ outputs.tagVersion = prev.outputs.tagVersion
        /\ outputs.isPublished = prev.outputs.isPublished
        /\ outputs.publishedVersion = prev.outputs.publishedVersion
        /\ outputs.alreadyPublished = prev.outputs.alreadyPublished
        /\ outputs.shouldPublish = prev.outputs.shouldPublish

C19_Witness ==
    /\ run = 2
    /\ Done
    /\ ref = prev.ref
    /\ lookup = prev.lookup
    /\ lookup.kind = "returned"
    /\ outputs.isPublished
    /\ outputs.shouldPublish
    /\ outputs = prev.outputs

\* C20: no state is shared between invocations: the report a call of
\* setupContext emits is the one computed from that call's own Decision,
\* trigger rows and warning, with nothing carried over from an earlier call.
C20_ReportOfThisRunOnly ==
    (IsSetupContext /\ Done) =>
        summary = <<BuildSummary(outputs, triggerInfo, versionWarning)>>

-----------------------------------------------------------------------------
(* Properties of error handling, the registry answer and the report        *)

\* the last two steps of the run are those of the top-level handler
EndsInHandler ==
    /\ Len(events) >= 2
    /\ events[Len(events) - 1] = "stderr:fatal"
    /\ events[Len(events)] = "exit:1"
    /\ Cardinality({i \in 1..Len(events) : events[i] = "stderr:fatal"}) = 1

\* git cannot be located and getGitRef of the @actions/exec variant runs a probe
ProbeRejects ==
    /\ variant = "part_003"
    /\ ~githubActions
    /\ ~Truthy(probes.envRef)
    /\ probes.branch.exitCode = 127

NothingEmitted == \A n \in OutputNames : emitted[n] = <<>>

\* C21: an error raised outside the registry-check step (ref detection,
\* classification, report writing) is not swallowed: it reaches the top-level
\* handler, which logs it and exits with code 1; only an error raised inside
\* the registry-check step is caught and turned into a warning.
C21_ErrorsPropagate ==
    IsSetupContext =>
        /\ pc = "failed" => (EndsInHandler /\ summary = NoSummary /\ notice = "")
        /\ Happened("stderr:fatal") => pc = "failed"
        /\ (Happened("getGitRef") /\ ProbeRejects) =>
               (pc = "failed" /\ NothingEmitted /\ registryCalls = 0)
        /\ (inputs.ref = Undefined /\ pc \notin {"parse", "start", "classify"}) =>
               (pc = "failed" /\ NothingEmitted /\ registryCalls = 0)
        /\ Done => Happened("summary")
        /\ (Happened("out:should-publish") /\ ~Happened("summary")) => pc = "failed"
        /\ lookup.kind = "threw" =>
               /\ Happened("warn:registry")
               /\ pc \in {"finish", "done", "failed"}
               /\ pc = "failed" => Happened("out:should-publish")
        /\ Happened("warn:registry") => lookup.kind = "threw"

C21_Witness ==
    /\ pc = "failed"
    /\ variant = "part_003"
    /\ lookup.kind = "threw"
    /\ Happened("warn:registry")
    /\ Happened("out:should-publish")
    /\ EndsInHandler

\* C22: the registry answer counts as found exactly when the exit code is 0
\* and the output is non-empty after trimming; publishedVersion is then the
\* trimmed output.  Every other returned outcome is not found, with
\* publishedVersion empty.
C22_FoundIffZeroAndNonEmpty ==
    (IsSetupContext /\ isTag /\ lookup.kind = "returned") =>
        LET trimmed == Trim(lookup.stdout)
            found == lookup.exitCode = 0 /\ trimmed # <<>>
        IN  /\ outputs.isPublished = found
            /\ outputs.publishedVersion = IF found THEN trimmed ELSE <<>>
            /\ outputs.alreadyPublished = (found /\ tagVersion = trimmed)
            /\ Happened("info:found") <=> found
            /\ Happened("info:not-found") <=> ~found
            /\ Done =>
                   /\ EmittedOnce("is-published", found)
                   /\ EmittedOnce("published-version", IF found THEN trimmed ELSE <<>>)
                   /\ summary[Len(summary)].rows[6] =
                          <<"Latest Published", IF found THEN trimmed ELSE EmDash>>

C22_Witness ==
    /\ Done
    /\ variant = "part_004"
    /\ tagVersion = <<"1",".","2",".","3">>
    /\ lookup.exitCode = 0
    /\ lookup.stdout = <<"1",".","2",".","3","\n">>
    /\ outputs.publishedVersion = <<"1",".","2",".","3">>
    /\ outputs.alreadyPublished

\* C23: the report and the decision agree: in every completed run the status
\* line is Ready-to-publish or First-publish exactly when shouldPublish is
\* true, and so are the notice "is ready to be published" and the Next
\* Steps section.
C23_ReportAgreesWithDecision ==
    (IsSetupContext /\ Done) =>
        LET report == summary[Len(summary)]
        IN  /\ StatusKind(report.status) \in {"ReadyToPublish", "FirstPublish"}
                   <=> outputs.shouldPublish
            /\ notice = "is ready to be published" <=> outputs.shouldPublish
            /\ report.nextSteps <=> outputs.shouldPublish
            /\ EmittedOnce("should-publish", outputs.shouldPublish)

\* the positions of step e in this run
Positions(e) == {i \in 1..Len(events) : events[i] = e}

\* every occurrence of step a precedes every occurrence of step b
Before(a, b) == \A i \in Positions(a), j \in Positions(b) : i < j

RefSteps == {"getGitRef", "env:GITHUB_ACTIONS", "env:GITHUB_REF",
             "git:symbolic-ref", "git:describe"}
RegistrySteps == {"registry", "info:found", "info:not-found", "warn:registry"}
FinalOutputSteps == {"out:is-published", "out:published-version",
                     "out:already-published", "out:should-publish"}

\* C24: within one run ref resolution finishes before classification; is-tag
\* and tag-version are emitted before any registry query; the version-format
\* warning precedes the registry query; the registry is queried at most once;
\* the four final outputs are emitted only after the registry step has
\* finished or been skipped, and before the report.
C24_FixedOrder ==
    IsSetupContext =>
        /\ \A e \in RefSteps : Before(e, "out:is-tag") /\ Before(e, "out:tag-version")
        /\ Happened("registry") =>
               /\ Happened("out:is-tag") /\ Before("out:is-tag", "registry")
               /\ Happened("out:tag-version") /\ Before("out:tag-version", "registry")
               /\ versionWarning => Happened("warn:semver")
        /\ Before("warn:semver", "registry")
        /\ Cardinality(Positions("registry")) <= 1
        /\ registryCalls = Cardinality(Positions("registry"))
        /\ \A e \in FinalOutputSteps :
               /\ Cardinality(Positions(e)) <= 1
               /\ \A g \in RegistrySteps : Before(g, e)
               /\ Before("out:tag-version", e)
               /\ Before(e, "summary")
               /\ Happened(e) => Happened("out:tag-version")
               /\ (Happened(e) /\ isTag) =>
                      (Happened("registry") /\ \E g \in RegistrySteps \ {"registry"} : Happened(g))
               /\ Happened(e) => pc \in {"done", "failed"}
               /\ Happened("summary") => Happened(e)

C24_Witness ==
    /\ Done
    /\ variant = "part_003"
    /\ events = <<"out:is-tag", "out:tag-version", "warn:semver", "registry",
                  "info:not-found", "out:is-published", "out:published-version",
                  "out:already-published", "out:should-publish", "summary", "notice">>

\* C25: the key/value list of the report of a completed run on a tag ref
\* holds, in this order, trigger kind, ref, tag version, registry, package
\* and latest published version (an em dash when nothing is published); on a
\* non-tag ref it holds exactly trigger kind and ref.
C25_ReportRows ==
    (IsSetupContext /\ Done) =>
        LET rows == summary[Len(summary)].rows
            keys == [i \in 1..Len(rows) |-> rows[i][1]]
        IN  IF isTag
            THEN /\ keys = <<"Trigger", "Reference", "Tag Version", "Registry",
                             "Package", "Latest Published">>
                 /\ rows[1][2] = <<"Version Tag">>
                 /\ rows[2][2] = ref
                 /\ rows[3][2] = tagVersion
                 /\ rows[4][2] = inputs.registryUrl
                 /\ rows[5][2] = inputs.package
                 /\ rows[6][2] = IF outputs.isPublished THEN outputs.publishedVersion
                                 ELSE EmDash
            ELSE /\ keys = <<"Trigger", "Reference">>
                 /\ rows[1][2] = <<"Branch/PR">>
                 /\ rows[2][2] = ref

-----------------------------------------------------------------------------
(* Properties of parseArgs                                                 *)

\* the value after the last occurrence of one of the flags, dflt when none occurs
LastValue(keys, dflt) ==
    LET at == {i \in 1..Len(argv) : i % 2 = 1 /\ \E k \in keys : argv[i] = DashDash \o k}
    IN  IF at = {} THEN dflt
        ELSE argv[(CHOOSE i \in at : \A j \in at : j <= i) + 1]

\* C26: for an argument list of flag/value pairs (--package, --registry or
\* --registry-url, --tag-prefix, --ref, any order, non-empty values) parseArgs
\* returns for each field the value after the last occurrence of its flag,
\* tagPrefix v and ref "" when their flags are absent; --registry and
\* --registry-url write the same field; tagPrefix is a defined string.
C26_ParseArgsLastWins ==
    (IsSetupContext /\ pc \in {"start", "exited"}) =>
        /\ inputs.package = LastValue({KeyPackage}, Undefined)
        /\ inputs.registryUrl = LastValue({KeyRegistry, KeyRegistryUrl}, Undefined)
        /\ inputs.tagPrefix = LastValue({KeyTagPrefix}, DefaultTagPrefix)
        /\ inputs.ref = LastValue({KeyRef}, <<>>)
        /\ inputs.tagPrefix # Undefined
        /\ pc = "start" <=> (inputs.package # Undefined /\ inputs.registryUrl # Undefined)

C26_Witness ==
    /\ pc = "start"
    /\ argv = <<DashDash \o KeyRegistryUrl, <<"a">>,
                DashDash \o KeyPackage, DashDash \o KeyRef,
                DashDash \o KeyRegistry, <<"b">> >>
    /\ inputs = [package |-> DashDash \o KeyRef, registryUrl |-> <<"b">>,
                 tagPrefix |-> DefaultTagPrefix, ref |-> <<>>]

-----------------------------------------------------------------------------
(* Properties of the Decision and of the three variants                    *)

\* C27: in every state of a run and in the final Decision, alreadyPublished
\* and shouldPublish are never both true, isPublished is true exactly when
\* publishedVersion is non-empty, and alreadyPublished implies that
\* tagVersion equals publishedVersion and is non-empty (the empty version of
\* the ref refs/tags/<tagPrefix> is never reported as already published).
C27_DecisionConsistent ==
    IsSetupContext =>
        /\ ~(outputs.alreadyPublished /\ outputs.shouldPublish)
        /\ outputs.isPublished <=> outputs.publishedVersion # <<>>
        /\ outputs.alreadyPublished =>
               /\ outputs.tagVersion = outputs.publishedVersion
               /\ outputs.tagVersion # <<>>
        /\ (pc \in {"registry", "finish", "done"}
               /\ ref = RefsTagsLiteral \o inputs.tagPrefix) =>
               /\ outputs.isTag
               /\ outputs.tagVersion = <<>>
               /\ ~outputs.alreadyPublished
        /\ Done =>
               /\ ~(EmittedOnce("already-published", TRUE)
                      /\ EmittedOnce("should-publish", TRUE))
               /\ EmittedOnce("is-published", TRUE)
                      <=> ~EmittedOnce("published-version", <<>>)
               /\ EmittedOnce("already-published", TRUE) =>
                      /\ emitted["tag-version"] = emitted["published-version"]
                      /\ ~EmittedOnce("tag-version", <<>>)

C27_Witness ==
    /\ Done
    /\ IsSetupContext
    /\ ref = RefsTagsLiteral \o <<"v">>
    /\ inputs.tagPrefix = <<"v">>
    /\ isTag
    /\ tagVersion = <<>>
    /\ Reported(<<"1">>)
    /\ outputs.isPublished
    /\ ~outputs.alreadyPublished
    /\ outputs.shouldPublish

\* the Decision setupContext of part_004 computes for a ref, a tag prefix and
\* a registry outcome that did not throw
DecisionOfBunVariant(r, tagPrefix, outcome) ==
    LET t == IsTagOf(r, tagPrefix)
        v == TagVersionOf(r, tagPrefix)
        result == CheckRegistryVersionBun(outcome)
    IN  IF ~t THEN InitialOutputs(t, v)
        ELSE IF Found(result) THEN FoundOutputs(InitialOutputs(t, v), v, result.stdout)
        ELSE NotFoundOutputs(InitialOutputs(t, v))

\* C28: the three variants agree: for every ref and every registry outcome
\* that does not throw, index.ts and both setupContext variants (tagPrefix v)
\* produce the same is-tag, is-published and already-published and select the
\* same status; the two setupContext variants produce the same six-field
\* Decision for the same arguments, ref and registry outcome.
C28_VariantsAgree ==
    (Done /\ lookup.kind # "threw") =>
        LET d == DecisionOfBunVariant(ref, IF IsSetupContext THEN inputs.tagPrefix
                                           ELSE DefaultTagPrefix, lookup)
        IN  /\ EmittedOnce("is-tag", d.isTag)
            /\ EmittedOnce("is-published", d.isPublished)
            /\ EmittedOnce("already-published", d.alreadyPublished)
            /\ Len(summary) = 1
            /\ StatusKind(summary[1].status) = StatusKind(StatusOf(d))
            /\ IsSetupContext =>
                   /\ outputs = d
                   /\ EmittedOnce("tag-version", d.tagVersion)
                   /\ EmittedOnce("published-version", d.publishedVersion)
                   /\ EmittedOnce("should-publish", d.shouldPublish)

C28_Witness ==
    /\ Done
    /\ variant = "index.ts"
    /\ ref = RefsTagsLiteral \o <<"v","1",".","2",".","3">>
    /\ lookup.kind = "returned"
    /\ lookup.exitCode = 0
    /\ lookup.stdout = <<"1",".","2",".","3","\n">>
    /\ EmittedOnce("already-published", TRUE)
    /\ summary[1].status = "Already published"

====
